---- MODULE Spec2Model ----
(***************************************************************************)
(* De-identification of medical images: the Lambda pipeline                *)
(* (lambda_handler, detect_text, detect_phi_boxes, redact_phi_from_images, *)
(* save_image) and the PHI decision / geometry logic it shares with the    *)
(* notebook variant of the same code.                                      *)
(*                                                                         *)
(* Conventions of the model                                                *)
(*  - A confidence score or threshold is an integer number of hundredths   *)
(*    (0.3 is 30).  Scores are only ever compared, never computed with.    *)
(*  - A normalized coordinate is a fraction <<num, den>>.  int(f * n) is   *)
(*    (num * n) \div den; for every fraction and image size used below     *)
(*    the float product truncates to the same integer.                     *)
(*  - A numpy image is [shape |-> <<rows, cols>>, px |-> pixel function],  *)
(*    px[<<y, x>>] with 0 <= y < rows, 0 <= x < cols.                        *)
(*  - A call that raises yields [raise |-> exception name].                *)
(***************************************************************************)
EXTENDS Integers, Sequences, FiniteSets, TLC

\* ------------------------------------------------------------------ bounds
MaxEntities == 2       \* entities in one detect_phi response
MaxTexts == 3          \* text detections in one detect_text response
MaxDim == 3            \* rows / cols of the images of the geometry checks
RedactDim == 8         \* rows = cols of the images of the redaction checks
MaxRegions == 2        \* regions handed to redact_phi_from_images

\* --------------------------------------------------------------- constants
threshold == 30             \* detect_phi_boxes: threshold = 0.3
threshold_notebook == 40    \* notebook cell: threshold = 0.4
LINE_4 == 4                 \* cv2.LINE_4, passed as the THICKNESS argument

FILL_COLOR == <<0, 0, 0>>
OUTLINE_COLOR == <<255, 255, 255>>
GREY == <<128, 128, 128>>

Scores == {0, 29, 30, 31, 39, 40, 41, 100}
Fracs == {<<0, 1>>, <<1, 4>>, <<1, 2>>, <<3, 4>>, <<1, 1>>}

Abs(n) == IF n < 0 THEN -n ELSE n

\* ------------------------------------------------------------ PHI decision
IsPhi_geq(Entities, thr) ==
    Len(Entities) # 0 /\ Entities[1].Score >= thr

\* len(response['Entities'])!=0 and response['Entities'][0]['Score'] > threshold
IsPhi(Entities, thr) ==
    Len(Entities) # 0 /\ Entities[1].Score > thr

\* ---------------------------------------------------------------- geometry
\* int(f * n) for a fraction f >= 0: truncation.
int_mul(f, n) == (f[1] * n) \div f[2]

\* A nearest integer to f * n (half up).
round_mul(f, n) == (2 * f[1] * n + f[2]) \div (2 * f[2])

PixelBox_round(x_y, image) ==
    LET h == image.shape[2]
        w == image.shape[1]
        X == round_mul(x_y.Left, h)
        Y == round_mul(x_y.Top, w)
        W == round_mul(x_y.Width, h)
        H == round_mul(x_y.Height, w)
    IN  <<X, Y, X + W, Y + H>>

PixelBox_swapped(x_y, image) ==
    LET h == image.shape[1]
        w == image.shape[2]
        X == int_mul(x_y.Left, h)
        Y == int_mul(x_y.Top, w)
        W == int_mul(x_y.Width, h)
        H == int_mul(x_y.Height, w)
    IN  <<X, Y, X + W, Y + H>>

\* h = image.shape[1] (columns), w = image.shape[0] (rows);
\* X = int(Left*h), Y = int(Top*w), W = int(Width*h), H = int(Height*w);
\* the tuple stored is (X, Y, X+W, Y+H).
PixelBox(x_y, image) ==
    LET h == image.shape[2]
        w == image.shape[1]
        X == int_mul(x_y.Left, h)
        Y == int_mul(x_y.Top, w)
        W == int_mul(x_y.Width, h)
        H == int_mul(x_y.Height, w)
    IN  <<X, Y, X + W, Y + H>>

\* ----------------------------------------------------------------- planner
\* One entry of phi_boxes: (text['DetectedText'], box), box a one-element list.
RECURSIVE phi_loop(_, _, _, _)
phi_loop(texts, image, thr, phi_boxes) ==
    IF texts = <<>> THEN phi_boxes
    ELSE LET text == Head(texts)
             hit  == text.Type = "LINE" /\ IsPhi(text.Entities, thr)
             box  == <<PixelBox(text.Geometry.BoundingBox, image)>>
         IN  phi_loop(Tail(texts), image, thr,
                      IF hit THEN Append(phi_boxes, <<text.DetectedText, box>>)
                      ELSE phi_boxes)

RECURSIVE phi_loop_no_type(_, _, _, _)
phi_loop_no_type(texts, image, thr, phi_boxes) ==
    IF texts = <<>> THEN phi_boxes
    ELSE LET text == Head(texts)
             hit  == IsPhi(text.Entities, thr)
             box  == <<PixelBox(text.Geometry.BoundingBox, image)>>
         IN  phi_loop_no_type(Tail(texts), image, thr,
                      IF hit THEN Append(phi_boxes, <<text.DetectedText, box>>)
                      ELSE phi_boxes)

detect_phi_boxes_no_type(texts, image) ==
    phi_loop_no_type(texts, image, threshold, <<>>)

\* detect_phi_boxes(texts, image).  image.shape is read before the loop, so an
\* image that failed to decode (None) raises whatever texts holds.
detect_phi_boxes(texts, image) ==
    phi_loop(texts, image, threshold, <<>>)

\* The notebook's planning loop: same decision with threshold 0.4; the box is
\* the polygon scaled to pixels, (X*h, Y*w) for each point, kept as fractions.
RECURSIVE notebook_loop(_, _, _)
notebook_loop(texts, image, phi_boxes) ==
    IF texts = <<>> THEN phi_boxes
    ELSE LET text == Head(texts)
             h    == image.shape[2]
             w    == image.shape[1]
             hit  == text.Type = "LINE" /\ IsPhi(text.Entities, threshold_notebook)
             poly == text.Geometry.Polygon
             box  == [k \in 1..Len(poly) |->
                        << <<poly[k].X[1] * h, poly[k].X[2]>>,
                           <<poly[k].Y[1] * w, poly[k].Y[2]>> >>]
         IN  notebook_loop(Tail(texts), image,
                      IF hit THEN Append(phi_boxes, <<text.DetectedText, box>>)
                      ELSE phi_boxes)

notebook_phi_boxes(texts, image) == notebook_loop(texts, image, <<>>)

\* --------------------------------------------------------------- redaction
\* cv2.rectangle(img, (X1,Y1), (X2,Y2), color, cv2.FILLED): every pixel with
\* X1 <= x <= X2 and Y1 <= y <= Y2 (both corners included), clipped to the image.
rectangle_filled(img, box, color) ==
    [img EXCEPT !.px =
        [p \in DOMAIN img.px |->
            IF /\ box[1] <= p[2] /\ p[2] <= box[3]
               /\ box[2] <= p[1] /\ p[1] <= box[4]
            THEN color ELSE img.px[p]]]

\* A thick edge from (xa, ya) to (xb, yb), axis-aligned: the strip of half
\* width thickness \div 2 along the edge, and the round caps at both ends.
\* Which pixels on the rim of the strip and of the caps the rasterizer sets
\* is approximated; every pixel set is set to the outline colour.
OnThickEdge(p, xa, ya, xb, yb, half) ==
    \/ /\ xa <= p[2] /\ p[2] <= xb
       /\ ya - half <= p[1] /\ p[1] <= yb + half
    \/ /\ xa - half <= p[2] /\ p[2] <= xb + half
       /\ ya <= p[1] /\ p[1] <= yb
    \/ (p[2] - xa) * (p[2] - xa) + (p[1] - ya) * (p[1] - ya) <= half * half + 1
    \/ (p[2] - xb) * (p[2] - xb) + (p[1] - yb) * (p[1] - yb) <= half * half + 1

\* cv2.rectangle(img, (X1,Y1), (X2,Y2), color, thickness): the four edges drawn
\* as thick lines, clipped to the image.
rectangle_outline(img, box, color, thickness) ==
    LET half == thickness \div 2
        X1 == box[1]
        Y1 == box[2]
        X2 == box[3]
        Y2 == box[4]
    IN  [img EXCEPT !.px =
            [p \in DOMAIN img.px |->
                IF \/ OnThickEdge(p, X1, Y1, X2, Y1, half)
                   \/ OnThickEdge(p, X1, Y2, X2, Y2, half)
                   \/ OnThickEdge(p, X1, Y1, X1, Y2, half)
                   \/ OnThickEdge(p, X2, Y1, X2, Y2, half)
                THEN color ELSE img.px[p]]]

\* One iteration of the loop: img_filled, then img_boxed drawn on it.  Both
\* calls draw on img itself and return it.
redact_one(img, entry) ==
    LET box == entry[2][1]
        img_filled == rectangle_filled(img, box, FILL_COLOR)
    IN  rectangle_outline(img_filled, box, OUTLINE_COLOR, LINE_4)

RECURSIVE redact_loop(_, _)
redact_loop(phi_boxes, img) ==
    IF phi_boxes = <<>> THEN img
    ELSE redact_loop(Tail(phi_boxes), redact_one(img, Head(phi_boxes)))

\* A redactor that draws every region on a fresh copy of the input and returns
\* the last copy.
redact_last_only(phi_boxes, img) ==
    IF phi_boxes = <<>> THEN [raise |-> "UnboundLocalError"]
    ELSE redact_one(img, phi_boxes[Len(phi_boxes)])

\* redact_phi_from_images(phi_boxes, img): img_boxed is bound only inside the
\* loop body, so `return img_boxed` raises when phi_boxes is empty.
redact_phi_from_images(phi_boxes, img) ==
    IF phi_boxes = <<>> THEN [raise |-> "UnboundLocalError"]
    ELSE redact_loop(phi_boxes, img)

Raised(v) == "raise" \in DOMAIN v

\* ------------------------------------------------------------------ state
VARIABLES
    pc,        \* per invocation: position in lambda_handler
    event,     \* per invocation: the S3 event's bucket/key
    key,       \* per invocation: the local variable key
    img,       \* per invocation: the decoded image (None when imdecode failed)
    texts,     \* per invocation: detect_text's result
    phi_boxes, \* per invocation: detect_phi_boxes' result
    result,    \* per invocation: the value returned to the runtime
    err,       \* per invocation: the exception that ended it
    s3,        \* the bucket: key -> object bytes
    tmp,       \* the file /tmp/abc.jpg
    hist,      \* history: per invocation, the stages completed
    failedAt,  \* history: per invocation, the stage that raised
    puts,      \* history: the put_object calls made
    arg,       \* argument of the function under check
    ret        \* its result

pipeVars == <<pc, event, key, img, texts, phi_boxes, result, err, s3, tmp,
              hist, failedAt, puts>>
vars == <<pc, event, key, img, texts, phi_boxes, result, err, s3, tmp,
          hist, failedAt, puts, arg, ret>>

\* None, a missing file and "nothing returned" are records, so that they
\* compare with images, file contents and results.
None == [none |-> TRUE]
NoFile == [fmt |-> "absent"]
NoResult == [returned |-> FALSE]
NotCalled == [fn |-> "none"]

UpTo(S, n) == UNION {[1..k -> S] : k \in 0..n}

Uniform(rows, cols, color) ==
    [shape |-> <<rows, cols>>,
     px |-> [p \in (0..(rows - 1)) \X (0..(cols - 1)) |-> color]]

\* A two-tone image: the left half and the right half differ.
TwoTone(rows, cols, a, b) ==
    [shape |-> <<rows, cols>>,
     px |-> [p \in (0..(rows - 1)) \X (0..(cols - 1)) |->
                IF 2 * p[2] < cols THEN a ELSE b]]

frac_add(f, g) == <<f[1] * g[2] + g[1] * f[2], f[2] * g[2]>>

\* The geometry Rekognition reports for axis-aligned text: the bounding box
\* and its four corners as the polygon.
Geometry(bb) ==
    LET x2 == frac_add(bb.Left, bb.Width)
        y2 == frac_add(bb.Top, bb.Height)
    IN  [BoundingBox |-> bb,
         Polygon |-> << [X |-> bb.Left, Y |-> bb.Top], [X |-> x2, Y |-> bb.Top],
                        [X |-> x2, Y |-> y2], [X |-> bb.Left, Y |-> y2] >>]

BB(l, t, w, h) == [Left |-> l, Top |-> t, Width |-> w, Height |-> h]

\* --------------------------------------------------------------- pipeline
Invocations == {"a", "b"}

\* 'Images/' and 'RedactedImages/', the arguments of key.replace
OLD_PREFIX == <<"I", "m", "a", "g", "e", "s", "/">>
NEW_PREFIX == <<"R", "e", "d", "a", "c", "t", "e", "d",
                "I", "m", "a", "g", "e", "s", "/">>

\* Keys the trigger delivers: 'Images/a', 'images/x_ray.jpg' (the notebook's
\* key), 'RedactedImages/a' (an object the pipeline itself writes) and
\* 'Images/n' (an upload that is no image).
KeyImages == OLD_PREFIX \o <<"a">>
KeyLower == <<"i", "m", "a", "g", "e", "s", "/",
              "x", "_", "r", "a", "y", ".", "j", "p", "g">>
KeyRedacted == NEW_PREFIX \o <<"a">>
KeyNotes == OLD_PREFIX \o <<"n">>
EventKeys == {KeyImages, KeyLower, KeyRedacted, KeyNotes}

\* str.replace(old, new): every non-overlapping occurrence, left to right.
RECURSIVE str_replace(_, _, _)
str_replace(str, old, new) ==
    IF Len(str) < Len(old) THEN str
    ELSE IF SubSeq(str, 1, Len(old)) = old
         THEN new \o str_replace(SubSeq(str, Len(old) + 1, Len(str)), old, new)
         ELSE <<Head(str)>> \o str_replace(Tail(str), old, new)

\* key = key.replace('Images/','RedactedImages/')
DestinationKey(k) == str_replace(k, OLD_PREFIX, NEW_PREFIX)

\* cv2.imwrite(".jpg") / cv2.imdecode: the bytes of an image and back; the
\* loss of the JPEG codec is not modelled.  imdecode returns None, and does
\* not raise, for bytes that are no image.
imencode(image) == [fmt |-> "jpeg", image |-> image]
imdecode(bytes) == IF bytes.fmt = "jpeg" THEN bytes.image ELSE None

\* The bucket before any invocation: the uploads.
S3Init ==
    (KeyImages :> imencode(Uniform(RedactDim, RedactDim, GREY))) @@
    (KeyLower :> imencode(TwoTone(RedactDim, RedactDim, GREY, FILL_COLOR))) @@
    (KeyNotes :> [fmt |-> "text"])

\* Text detections Rekognition may answer with.
Unit(type, text, score, bb) ==
    [Type |-> type, DetectedText |-> text,
     Entities |-> IF score < 0 THEN <<>> ELSE <<[Score |-> score]>>,
     Geometry |-> Geometry(bb)]

BoxTopLeft == BB(<<0, 1>>, <<0, 1>>, <<1, 4>>, <<1, 4>>)
BoxRight == BB(<<3, 4>>, <<1, 2>>, <<1, 2>>, <<1, 4>>)

TextLists ==
    { <<>>,
      << Unit("WORD", "John", 90, BoxTopLeft) >>,
      << Unit("LINE", "Chest PA", 20, BoxRight) >>,
      << Unit("LINE", "Patient: John Doe", 90, BoxTopLeft) >>,
      << Unit("LINE", "Patient: John Doe", 90, BoxTopLeft),
         Unit("LINE", "DOB 1970", 35, BoxRight) >> }

StageOrder == <<"FETCH_IMAGE", "DETECT_TEXT", "PLAN_REDACTIONS",
                "APPLY_REDACTIONS", "STORE_RESULT">>

\* return {'statusCode': 200, 'body': json.dumps('Hello from Lambda!')}
HandlerResult == [statusCode |-> 200, body |-> [json |-> "Hello from Lambda!"]]

PipeInit ==
    /\ pc = [i \in Invocations |-> "idle"]
    /\ event = [i \in Invocations |-> None]
    /\ key = [i \in Invocations |-> <<>>]
    /\ img = [i \in Invocations |-> None]
    /\ texts = [i \in Invocations |-> <<>>]
    /\ phi_boxes = [i \in Invocations |-> <<>>]
    /\ result = [i \in Invocations |-> NoResult]
    /\ err = [i \in Invocations |-> "none"]
    /\ s3 = S3Init
    /\ tmp = NoFile
    /\ hist = [i \in Invocations |-> <<>>]
    /\ failedAt = [i \in Invocations |-> "none"]
    /\ puts = <<>>

Init ==
    /\ PipeInit
    /\ arg = None
    /\ ret = NotCalled

\* An exception leaves lambda_handler: nothing is returned.
Raise(i, stage, e) ==
    /\ pc' = [pc EXCEPT ![i] = "failed"]
    /\ err' = [err EXCEPT ![i] = e]
    /\ failedAt' = [failedAt EXCEPT ![i] = stage]

Completed(i, stage) == hist' = [hist EXCEPT ![i] = Append(@, stage)]

\* The S3 event reaches lambda_handler: bucket and key are read from it.
Trigger(i) ==
    /\ pc[i] = "idle"
    /\ \E k \in EventKeys :
          /\ event' = [event EXCEPT ![i] = [bucket |-> "bucket", key |-> k]]
          /\ key' = [key EXCEPT ![i] = k]
    /\ pc' = [pc EXCEPT ![i] = "fetch"]
    /\ UNCHANGED <<img, texts, phi_boxes, result, err, s3, tmp, hist,
                   failedAt, puts, arg, ret>>

\* my_image.get(), read(), np.fromstring, cv2.imdecode
FetchImage(i) ==
    /\ pc[i] = "fetch"
    /\ \/ /\ Raise(i, "FETCH_IMAGE", "ImageFetchError")
          /\ UNCHANGED <<img, hist>>
       \/ /\ key[i] \in DOMAIN s3
          /\ img' = [img EXCEPT ![i] = imdecode(s3[key[i]])]
          /\ Completed(i, "FETCH_IMAGE")
          /\ pc' = [pc EXCEPT ![i] = "detect"]
          /\ UNCHANGED <<err, failedAt>>
    /\ UNCHANGED <<event, key, texts, phi_boxes, result, s3, tmp, puts,
                   arg, ret>>

\* texts = detect_text(bucket, key)
DetectText(i) ==
    /\ pc[i] = "detect"
    /\ \/ /\ Raise(i, "DETECT_TEXT", "OcrUnavailable")
          /\ UNCHANGED <<texts, hist>>
       \/ /\ \E t \in TextLists : texts' = [texts EXCEPT ![i] = t]
          /\ Completed(i, "DETECT_TEXT")
          /\ pc' = [pc EXCEPT ![i] = "plan"]
          /\ UNCHANGED <<err, failedAt>>
    /\ UNCHANGED <<event, key, img, phi_boxes, result, s3, tmp, puts,
                   arg, ret>>

\* phi_boxes = detect_phi_boxes(texts, img); comprehend_medical.detect_phi is
\* called once for every LINE and may raise.
PlanRedactions(i) ==
    /\ pc[i] = "plan"
    /\ \/ /\ \E k \in 1..Len(texts[i]) : texts[i][k].Type = "LINE"
          /\ Raise(i, "PLAN_REDACTIONS", "ClassificationUnavailable")
          /\ UNCHANGED <<phi_boxes, hist>>
       \/ /\ img[i] = None
          /\ Raise(i, "PLAN_REDACTIONS", "AttributeError")
          /\ UNCHANGED <<phi_boxes, hist>>
       \/ /\ img[i] # None
          /\ phi_boxes' = [phi_boxes EXCEPT ![i] = detect_phi_boxes(texts[i], img[i])]
          /\ Completed(i, "PLAN_REDACTIONS")
          /\ pc' = [pc EXCEPT ![i] = "apply"]
          /\ UNCHANGED <<err, failedAt>>
    /\ UNCHANGED <<event, key, img, texts, result, s3, tmp, puts, arg, ret>>

\* A handler that catches the redactor's exception and goes on with img.
ApplyRedactions_swallow(i) ==
    /\ pc[i] = "apply"
    /\ LET r == redact_phi_from_images(phi_boxes[i], img[i])
       IN  IF Raised(r)
           THEN /\ err' = [err EXCEPT ![i] = r.raise]
                /\ failedAt' = [failedAt EXCEPT ![i] = "APPLY_REDACTIONS"]
                /\ pc' = [pc EXCEPT ![i] = "store"]
                /\ UNCHANGED <<img, hist>>
           ELSE /\ img' = [img EXCEPT ![i] = r]
                /\ Completed(i, "APPLY_REDACTIONS")
                /\ pc' = [pc EXCEPT ![i] = "store"]
                /\ UNCHANGED <<err, failedAt>>
    /\ UNCHANGED <<event, key, texts, phi_boxes, result, s3, tmp, puts,
                   arg, ret>>

\* img_redacted = redact_phi_from_images(phi_boxes, img): img is drawn on in
\* place and returned.
ApplyRedactions(i) ==
    /\ pc[i] = "apply"
    /\ LET r == redact_phi_from_images(phi_boxes[i], img[i])
       IN  IF Raised(r)
           THEN /\ Raise(i, "APPLY_REDACTIONS", r.raise)
                /\ UNCHANGED <<img, hist>>
           ELSE /\ img' = [img EXCEPT ![i] = r]
                /\ Completed(i, "APPLY_REDACTIONS")
                /\ pc' = [pc EXCEPT ![i] = "store"]
                /\ UNCHANGED <<err, failedAt>>
    /\ UNCHANGED <<event, key, texts, phi_boxes, result, s3, tmp, puts,
                   arg, ret>>

\* key = key.replace(...); save_image: cv2.imwrite("/tmp/abc.jpg", img).
\* imwrite returns False when it cannot write; the value is not looked at.
ImWrite(i) ==
    /\ pc[i] = "store"
    /\ key' = [key EXCEPT ![i] = DestinationKey(key[i])]
    /\ \/ tmp' = imencode(img[i])
       \/ UNCHANGED tmp
    /\ pc' = [pc EXCEPT ![i] = "upload"]
    /\ UNCHANGED <<event, img, texts, phi_boxes, result, err, s3, hist,
                   failedAt, puts, arg, ret>>

\* A handler that answers 200 although put_object raised.
PutObject_swallow(i) ==
    /\ pc[i] = "upload"
    /\ result' = [result EXCEPT ![i] = HandlerResult]
    /\ pc' = [pc EXCEPT ![i] = "done"]
    /\ Completed(i, "STORE_RESULT")
    /\ UNCHANGED <<event, key, img, texts, phi_boxes, err, s3, tmp,
                   failedAt, puts, arg, ret>>

\* save_image: s3.put_object(Body = open("/tmp/abc.jpg",'rb').read()), then
\* lambda_handler returns.
PutObject(i) ==
    /\ pc[i] = "upload"
    /\ \/ /\ tmp = NoFile
          /\ Raise(i, "STORE_RESULT", "FileNotFoundError")
          /\ UNCHANGED <<s3, puts, result, hist>>
       \/ /\ tmp # NoFile
          /\ Raise(i, "STORE_RESULT", "ImageStoreError")
          /\ UNCHANGED <<s3, puts, result, hist>>
       \/ /\ tmp # NoFile
          /\ s3' = [k \in DOMAIN s3 \cup {key[i]} |->
                       IF k = key[i] THEN tmp ELSE s3[k]]
          /\ puts' = Append(puts, [by |-> i, key |-> key[i], body |-> tmp,
                                   own |-> img[i], after |-> hist[i]])
          /\ result' = [result EXCEPT ![i] = HandlerResult]
          /\ Completed(i, "STORE_RESULT")
          /\ pc' = [pc EXCEPT ![i] = "done"]
          /\ UNCHANGED <<err, failedAt>>
    /\ UNCHANGED <<event, key, img, texts, phi_boxes, tmp, arg, ret>>

Next ==
    \E i \in Invocations :
        \/ Trigger(i)
        \/ FetchImage(i)
        \/ DetectText(i)
        \/ PlanRedactions(i)
        \/ ApplyRedactions(i)
        \/ ImWrite(i)
        \/ PutObject(i)

Spec == Init /\ [][Next]_vars

\* ------------------------------------------------- checks of the functions
\* Each of the specifications below draws the arguments of one function from
\* a bounded set and applies the function once; the pipeline stays idle.

\* The PHI decision.
InitPhi ==
    /\ PipeInit
    /\ arg \in [Entities : UpTo([Score : Scores], MaxEntities),
                threshold : {threshold, threshold_notebook}]
    /\ ret = NotCalled

IsPhiCall ==
    /\ ret = NotCalled
    /\ ret' = [fn |-> "IsPhi", val |-> IsPhi(arg.Entities, arg.threshold)]
    /\ UNCHANGED <<pipeVars, arg>>

SpecPhi == InitPhi /\ [][IsPhiCall]_vars

\* The box-to-pixel mapping.  The last argument is the 1000 x 2000 scenario.
ExampleBox == BB(<<1, 10>>, <<1, 20>>, <<3, 10>>, <<1, 25>>)
ExampleImage == [shape |-> <<2000, 1000>>]

InitGeom ==
    /\ PipeInit
    /\ arg \in [x_y : [Left : Fracs, Top : Fracs, Width : Fracs, Height : Fracs],
                image : [shape : (1..MaxDim) \X (1..MaxDim)]]
               \cup {[x_y |-> ExampleBox, image |-> ExampleImage]}
    /\ ret = NotCalled

PixelBoxCall ==
    /\ ret = NotCalled
    /\ ret' = [fn |-> "PixelBox", val |-> PixelBox(arg.x_y, arg.image)]
    /\ UNCHANGED <<pipeVars, arg>>

SpecGeom == InitGeom /\ [][PixelBoxCall]_vars

\* The planner, in its two variants.
PlanEntities ==
    { <<>>, <<[Score |-> 30]>>, <<[Score |-> 90]>>,
      <<[Score |-> 20], [Score |-> 90]>> }

PlanUnits ==
    { [Type |-> t, DetectedText |-> g[1], Entities |-> e, Geometry |-> Geometry(g[2])] :
        t \in {"LINE", "WORD"}, e \in PlanEntities,
        g \in {<<"A", BoxTopLeft>>, <<"B", BoxRight>>} }

InitPlan ==
    /\ PipeInit
    /\ arg \in [texts : UpTo(PlanUnits, MaxTexts),
                image : {[shape |-> <<RedactDim, RedactDim>>]}]
    /\ ret = NotCalled

DetectPhiBoxesCall ==
    /\ ret = NotCalled
    /\ ret' = [fn |-> "detect_phi_boxes",
               val |-> detect_phi_boxes(arg.texts, arg.image)]
    /\ UNCHANGED <<pipeVars, arg>>

NotebookPlanCall ==
    /\ ret = NotCalled
    /\ ret' = [fn |-> "notebook_phi_boxes",
               val |-> notebook_phi_boxes(arg.texts, arg.image)]
    /\ UNCHANGED <<pipeVars, arg>>

NextPlan == DetectPhiBoxesCall \/ NotebookPlanCall

SpecPlan == InitPlan /\ [][NextPlan]_vars

\* The redactor.  The regions are pixel boxes the planner computes.
RedactImages ==
    { Uniform(RedactDim, RedactDim, GREY),
      Uniform(RedactDim, RedactDim, FILL_COLOR),
      Uniform(RedactDim, RedactDim, OUTLINE_COLOR),
      TwoTone(RedactDim, RedactDim, GREY, FILL_COLOR) }

RedactBBs ==
    { BB(l, t, w, h) : l \in {<<0, 1>>, <<1, 2>>}, t \in {<<0, 1>>, <<1, 2>>},
                       w \in {<<1, 4>>, <<1, 1>>}, h \in {<<1, 4>>, <<1, 1>>} }

InitRedact ==
    /\ PipeInit
    /\ \E im \in RedactImages :
          arg \in [phi_boxes : UpTo({<<"text", <<PixelBox(bb, im)>> >> : bb \in RedactBBs},
                                    MaxRegions),
                   img : {im}]
    /\ ret = NotCalled

RedactCall ==
    /\ ret = NotCalled
    /\ ret' = [fn |-> "redact_phi_from_images",
               val |-> redact_phi_from_images(arg.phi_boxes, arg.img)]
    /\ UNCHANGED <<pipeVars, arg>>

SpecRedact == InitRedact /\ [][RedactCall]_vars

\* ------------------------------------------------------------------ claims

\* C1: the PHI decision is true exactly when the entity sequence is non-empty
\* and the score of its first entity is strictly greater than the threshold:
\* false for the empty sequence, false when the first score equals the
\* threshold, false when only a later entity exceeds it.
C1_IsPhiFirstEntityStrict ==
    ret.fn = "IsPhi" =>
        /\ ret.val <=> (arg.Entities # <<>> /\ arg.Entities[1].Score > arg.threshold)
        /\ (arg.Entities = <<>> => ~ret.val)
        /\ (arg.Entities # <<>> /\ arg.Entities[1].Score = arg.threshold => ~ret.val)
        /\ (arg.Entities # <<>> /\ arg.Entities[1].Score < arg.threshold => ~ret.val)

C1_Witness ==
    /\ ret.fn = "IsPhi"
    /\ Len(arg.Entities) = 2
    /\ arg.Entities[1].Score = arg.threshold
    /\ arg.Entities[2].Score > arg.threshold
    /\ ret.val = FALSE

C2_LinePhi(u) ==
    u.Type = "LINE" /\ u.Entities # <<>> /\ u.Entities[1].Score > threshold

\* C2: detect_phi_boxes returns exactly the units of kind LINE classified as
\* PHI, one region each, in the order of the input: no region for a WORD
\* whatever its entities, none for a LINE that is not PHI, no reordering.
C2_PlanExactlyLinePhiInOrder ==
    ret.fn = "detect_phi_boxes" =>
        LET want == SelectSeq(arg.texts, C2_LinePhi)
        IN  /\ Len(ret.val) = Len(want)
            /\ \A k \in 1..Len(want) :
                  /\ ret.val[k][1] = want[k].DetectedText
                  /\ ret.val[k][2] =
                        <<PixelBox(want[k].Geometry.BoundingBox, arg.image)>>

C2_Witness ==
    /\ ret.fn = "detect_phi_boxes"
    /\ Len(arg.texts) = 3
    /\ arg.texts[1].Type = "WORD" /\ arg.texts[1].Entities = <<[Score |-> 90]>>
    /\ arg.texts[2].Type = "LINE" /\ arg.texts[2].DetectedText = "B"
    /\ arg.texts[3].Type = "LINE" /\ arg.texts[3].DetectedText = "A"
    /\ Len(ret.val) = 2
    /\ ret.val[1][1] = "B" /\ ret.val[2][1] = "A"

C3_StrictlyInside(box, p) ==
    box[1] < p[2] /\ p[2] < box[3] /\ box[2] < p[1] /\ p[1] < box[4]

\* C3 (as stated): after redact, no pixel strictly inside a region's box
\* retains its original value.
C3_NoPixelKeepsItsValue ==
    (ret.fn = "redact_phi_from_images" /\ ~Raised(ret.val)) =>
        \A k \in 1..Len(arg.phi_boxes) : \A p \in DOMAIN arg.img.px :
            C3_StrictlyInside(arg.phi_boxes[k][2][1], p) =>
                ret.val.px[p] # arg.img.px[p]

\* C3 (amended): after redact returns, every pixel strictly inside a region's
\* box holds the fill colour or the outline colour, also where regions
\* overlap; the rest of the image record (its shape) is as before.
C3_InsideIsFillOrOutline ==
    (ret.fn = "redact_phi_from_images" /\ ~Raised(ret.val)) =>
        /\ ret.val.shape = arg.img.shape
        /\ \A k \in 1..Len(arg.phi_boxes) : \A p \in DOMAIN arg.img.px :
              C3_StrictlyInside(arg.phi_boxes[k][2][1], p) =>
                  ret.val.px[p] \in {FILL_COLOR, OUTLINE_COLOR}

C3_Witness ==
    /\ ret.fn = "redact_phi_from_images"
    /\ ~Raised(ret.val)
    /\ Len(arg.phi_boxes) = 2
    /\ arg.phi_boxes[1][2][1] # arg.phi_boxes[2][2][1]
    /\ \E p \in DOMAIN arg.img.px :
          /\ C3_StrictlyInside(arg.phi_boxes[1][2][1], p)
          /\ C3_StrictlyInside(arg.phi_boxes[2][2][1], p)
          /\ arg.img.px[p] = GREY
          /\ ret.val.px[p] = FILL_COLOR
    /\ \E p \in DOMAIN arg.img.px :
          /\ C3_StrictlyInside(arg.phi_boxes[1][2][1], p)
          /\ arg.img.px[p] = FILL_COLOR
          /\ ret.val.px[p] = FILL_COLOR

IsPrefix(a, b) == Len(a) <= Len(b) /\ SubSeq(b, 1, Len(a)) = a

StageIndex(stage) == CHOOSE n \in 1..Len(StageOrder) : StageOrder[n] = stage

\* C4: the stages of an invocation complete in the order FETCH_IMAGE,
\* DETECT_TEXT, PLAN_REDACTIONS, APPLY_REDACTIONS, STORE_RESULT; every
\* put_object happens after APPLY_REDACTIONS completed; an invocation whose
\* fetch, OCR, classification or redaction raised has halted at that stage
\* and has written nothing.
C4_StoreOnlyAfterApply ==
    /\ \A i \in Invocations : IsPrefix(hist[i], StageOrder)
    /\ \A k \in 1..Len(puts) : puts[k].after = SubSeq(StageOrder, 1, 4)
    /\ \A i \in Invocations :
          failedAt[i] \in {"FETCH_IMAGE", "DETECT_TEXT", "PLAN_REDACTIONS",
                           "APPLY_REDACTIONS"} =>
              /\ pc[i] = "failed"
              /\ Len(hist[i]) = StageIndex(failedAt[i]) - 1
              /\ \A k \in 1..Len(puts) : puts[k].by # i

C4_Witness ==
    \E i, j \in Invocations :
        /\ pc[i] = "done"
        /\ \E k \in 1..Len(puts) : puts[k].by = i
        /\ pc[j] = "failed"
        /\ failedAt[j] = "APPLY_REDACTIONS"
        /\ \A k \in 1..Len(puts) : puts[k].by # j

\* C5 (as stated): an invocation that failed has returned a structured result
\* whose statusCode is not 2xx.
C5_FailureReturnsNon2xx ==
    \A i \in Invocations :
        pc[i] = "failed" =>
            /\ "statusCode" \in DOMAIN result[i]
            /\ result[i].statusCode \notin 200..299

\* C5 (amended): when a stage raises, the exception leaves lambda_handler and
\* nothing is returned; the only result ever returned is statusCode 200, and
\* it is returned only after all five stages completed and put_object
\* returned.
C5_RaiseReturnsNothing ==
    \A i \in Invocations :
        /\ failedAt[i] # "none" => pc[i] = "failed" /\ result[i] = NoResult
        /\ pc[i] = "failed" => result[i] = NoResult
        /\ result[i] # NoResult =>
              /\ result[i].statusCode = 200
              /\ pc[i] = "done"
              /\ hist[i] = StageOrder
              /\ \E k \in 1..Len(puts) : puts[k].by = i

C5_Witness ==
    \E i, j \in Invocations :
        /\ pc[i] = "failed" /\ failedAt[i] = "STORE_RESULT"
        /\ err[i] = "ImageStoreError"
        /\ result[i] = NoResult
        /\ pc[j] = "done" /\ result[j] = HandlerResult

\* C6 (as stated): the pixel box computed for a region satisfies
\* 0 <= x1 <= x2 <= imageWidth and 0 <= y1 <= y2 <= imageHeight.
C6_BoxWithinImage ==
    ret.fn = "PixelBox" =>
        LET b == ret.val
            rows == arg.image.shape[1]
            cols == arg.image.shape[2]
        IN  /\ 0 <= b[1] /\ b[1] <= b[3] /\ b[3] <= cols
            /\ 0 <= b[2] /\ b[2] <= b[4] /\ b[4] <= rows

FracLeqOne(f) == f[1] <= f[2]

\* C6 (amended): the pixel box is not clamped.  It satisfies 0 <= x1 <= x2,
\* 0 <= y1 <= y2, x1 <= imageWidth, y1 <= imageHeight, x2 - x1 <= imageWidth
\* and y2 - y1 <= imageHeight; x2 <= imageWidth holds when left + width <= 1
\* and y2 <= imageHeight when top + height <= 1.
C6_BoxOriginWithinImage ==
    ret.fn = "PixelBox" =>
        LET b == ret.val
            rows == arg.image.shape[1]
            cols == arg.image.shape[2]
        IN  /\ 0 <= b[1] /\ b[1] <= b[3] /\ b[1] <= cols /\ b[3] - b[1] <= cols
            /\ 0 <= b[2] /\ b[2] <= b[4] /\ b[2] <= rows /\ b[4] - b[2] <= rows
            /\ (FracLeqOne(frac_add(arg.x_y.Left, arg.x_y.Width)) => b[3] <= cols)
            /\ (FracLeqOne(frac_add(arg.x_y.Top, arg.x_y.Height)) => b[4] <= rows)

C6_Witness ==
    /\ ret.fn = "PixelBox"
    /\ ~FracLeqOne(frac_add(arg.x_y.Left, arg.x_y.Width))
    /\ ret.val[3] > arg.image.shape[2]
    /\ arg.image.shape[1] # arg.image.shape[2]

\* v is the integer part of f * n / v is an integer nearest to f * n.
C7_Truncated(v, f, n) == v * f[2] <= f[1] * n /\ f[1] * n < (v + 1) * f[2]
C7_Nearest(v, f, n) == 2 * Abs(v * f[2] - f[1] * n) <= f[2]

\* C7 (as stated): x1, y1, x2 - x1 and y2 - y1 are left, top, width and height
\* scaled by the horizontal / vertical pixel count and rounded to the nearest
\* integer.
C7_BoxRoundsToNearest ==
    ret.fn = "PixelBox" =>
        LET b == ret.val
            rows == arg.image.shape[1]
            cols == arg.image.shape[2]
        IN  /\ C7_Nearest(b[1], arg.x_y.Left, cols)
            /\ C7_Nearest(b[2], arg.x_y.Top, rows)
            /\ C7_Nearest(b[3] - b[1], arg.x_y.Width, cols)
            /\ C7_Nearest(b[4] - b[2], arg.x_y.Height, rows)

\* C7 (amended): the same mapping with truncation toward zero in place of
\* rounding to nearest: horizontal fractions scaled by the horizontal pixel
\* count, vertical ones by the vertical pixel count; the 1000 x 2000 scenario
\* gives {100, 100, 400, 180}.
C7_BoxTruncates ==
    ret.fn = "PixelBox" =>
        LET b == ret.val
            rows == arg.image.shape[1]
            cols == arg.image.shape[2]
        IN  /\ C7_Truncated(b[1], arg.x_y.Left, cols)
            /\ C7_Truncated(b[2], arg.x_y.Top, rows)
            /\ C7_Truncated(b[3] - b[1], arg.x_y.Width, cols)
            /\ C7_Truncated(b[4] - b[2], arg.x_y.Height, rows)
            /\ (arg.x_y = ExampleBox /\ arg.image = ExampleImage =>
                   b = <<100, 100, 400, 180>>)

C7_Witness ==
    /\ ret.fn = "PixelBox"
    /\ arg.x_y.Left = <<3, 4>>
    /\ arg.image.shape = <<2, 1>>
    /\ ret.val[1] = 0
    /\ ~C7_Nearest(ret.val[1], arg.x_y.Left, 1)

\* C8: when the invocations are triggered by different source keys, every
\* object an invocation writes is the encoding of its own redacted image.
C8_OwnImageStored ==
    (\A i, j \in Invocations :
        (i # j /\ event[i] # None /\ event[j] # None) =>
            event[i].key # event[j].key)
    => \A k \in 1..Len(puts) : puts[k].body = imencode(puts[k].own)

\* C9: with an empty plan (no text, only WORD units, or no LINE that is PHI)
\* APPLY_REDACTIONS does not fail: the invocation fails only where an
\* external call fails, and otherwise ends DONE with statusCode 200.
C9_EmptyPlanPassesApply ==
    \A i \in Invocations :
        (Len(hist[i]) >= 3 /\ phi_boxes[i] = <<>>) =>
            /\ failedAt[i] # "APPLY_REDACTIONS"
            /\ (pc[i] = "failed" =>
                    err[i] \in {"ImageStoreError", "FileNotFoundError"})
            /\ (pc[i] = "done" => result[i] = HandlerResult)

\* C10: the destination key computed for the store differs from the source
\* key the trigger delivered, so no put_object overwrites the source object.
C10_DestinationDiffers ==
    /\ \A i \in Invocations :
          pc[i] \in {"upload", "done"} => key[i] # event[i].key
    /\ \A k \in 1..Len(puts) : puts[k].key # event[puts[k].by].key

====
